---- MODULE Spec2Model ----
(***************************************************************************)
(* Model of the FINOS Legend Studio charmed operator (src/src/charm.py).   *)
(*                                                                         *)
(* The operator is a set of event handlers that the host runs one at a     *)
(* time.  Every handler is one action here; an action is the whole         *)
(* handler, including the reconfiguration it ends with.  The state is the  *)
(* StoredState of the charm (the four cache slots), the charm config, the  *)
(* unit status, and the workload container as seen through the Pebble API  *)
(* (reachability, layers, the two pushed files, restarts issued).          *)
(***************************************************************************)
EXTENDS Integers, Sequences, FiniteSets, TLC

VARIABLES
    config,                     \* self.model.config (the two logging options)
    legend_db_credentials,      \* self._stored.legend_db_credentials
    legend_gitlab_credentials,  \* self._stored.legend_gitlab_credentials
    sdlc_service_url,           \* self._stored.sdlc_service_url
    engine_service_url,         \* self._stored.engine_service_url
    status,                     \* self.unit.status
    can_connect,                \* container.can_connect() of the 'studio' container
    files,                      \* contents of the two files pushed into the container
    layers,                     \* Pebble layers of the container
    deferred,                   \* relation kinds with a deferred relation-changed event
    gitlab_app_data,            \* redirect URIs in event.relation.data[self.app]
    last_event,                 \* the handler that ran last
    last_payload,               \* what the peer's relation data held when it ran
    last_data,                  \* the value the handler read from that data
    last_ops,                   \* the calls the last handler made, in order
    fault,                      \* the last handler ended with an unhandled exception
    scenario                    \* progress along db, gitlab, sdlc, engine from a fresh unit,
                                \* and the restarts issued on the way

vars == <<config, legend_db_credentials, legend_gitlab_credentials,
          sdlc_service_url, engine_service_url, status, can_connect, files,
          layers, deferred, gitlab_app_data, last_event, last_payload, last_data,
          last_ops, fault, scenario>>

(***************************************************************************)
(* Module constants of charm.py.                                           *)
(***************************************************************************)
STUDIO_UI_CONFIG_FILE_CONTAINER_LOCAL_PATH == "/ui-config.json"
STUDIO_HTTP_CONFIG_FILE_CONTAINER_LOCAL_PATH == "/http-config.json"
APPLICATION_SERVER_UI_PATH == "/studio"
APPLICATION_CONNECTOR_TYPE_HTTP == "http"
APPLICATION_CONNECTOR_PORT_HTTP == 8080
VALID_APPLICATION_LOG_LEVEL_SETTINGS == {"INFO", "WARN", "DEBUG", "TRACE", "OFF"}
GITLAB_REQUIRED_SCOPES == <<"openid", "profile", "api">>

(***************************************************************************)
(* Python values.  None is the value of a function that returns nothing;   *)
(* the empty dict is the default of the two credential slots.              *)
(***************************************************************************)
None == "None"
EmptyDict == <<>>

\* Python truthiness of the values the handlers test with `not x`: a dict is
\* true when it is not empty, a string or None when it is a non-empty string.
TruthyDict(d) == d # EmptyDict
TruthyStr(s) == s # None /\ s # ""

(***************************************************************************)
(* Bounds: how many distinct database credentials the peer can send.       *)
(***************************************************************************)
MaxDbCreds == 2

(***************************************************************************)
(* Input domains.  A URI is kept as its '/'-separated segments.            *)
(***************************************************************************)
DbCreds ==
    { [uri |-> <<"mongodb:", "", "u:p@mongo" \o ToString(i) \o ":27017", "legend">>,
       database |-> "studio" \o ToString(i)] : i \in 1..MaxDbCreds }

GitlabCreds ==
    { [client_id |-> "id1", client_secret |-> "s1",
       openid_discovery_url |-> "https://gitlab/.well-known/openid-configuration"] }

SdlcUrls == {"http://sdlc:7070/api"}
EngineUrls == {"http://engine:6060/api"}
UnitAddresses == {"10.1.0.7"}

\* Two valid configs, and one with each option invalid ("FINE" is no valid level).
Configs ==
    { [server_logging_level |-> "INFO", server_pac4j_logging_level |-> "INFO"],
      [server_logging_level |-> "DEBUG", server_pac4j_logging_level |-> "INFO"],
      [server_logging_level |-> "FINE", server_pac4j_logging_level |-> "INFO"],
      [server_logging_level |-> "INFO", server_pac4j_logging_level |-> "FINE"] }

\* What a relation-changed handler gets when it reads the peer's relation data
\* (through the consumer library for db and gitlab, through rel.data[...].get
\* for sdlc and engine): nothing yet, so the read returns an empty value; data
\* that cannot be deserialized, so the library's getter raises; or a value.
Absent(empty) == [kind |-> "absent", data |-> empty]
Malformed(empty) == [kind |-> "malformed", data |-> empty]
Data(v) == [kind |-> "data", data |-> v]

DbPayloads == {Absent(EmptyDict), Malformed(EmptyDict)} \cup {Data(c) : c \in DbCreds}
GitlabPayloads == {Absent(EmptyDict), Malformed(EmptyDict)} \cup {Data(c) : c \in GitlabCreds}
SdlcPayloads == {Absent("")} \cup {Data(u) : u \in SdlcUrls}
EnginePayloads == {Absent("")} \cup {Data(u) : u \in EngineUrls}

(***************************************************************************)
(* json.dumps.  A Python value to be serialized is tagged with its type;   *)
(* a dict is the sequence of its <<key, value>> items in insertion order.  *)
(***************************************************************************)
PyStr(s) == [t |-> "str", v |-> s]
PyBool(b) == [t |-> "bool", v |-> b]
PyInt(n) == [t |-> "int", v |-> n]
PyList(items) == [t |-> "list", v |-> items]
PyDict(items) == [t |-> "dict", v |-> items]

RECURSIVE Join(_, _)
Join(strs, sep) ==
    IF Len(strs) = 0 THEN ""
    ELSE IF Len(strs) = 1 THEN strs[1]
    ELSE strs[1] \o sep \o Join(Tail(strs), sep)

RECURSIVE json_dumps(_)
json_dumps(x) ==
    CASE x.t = "str" -> "\"" \o x.v \o "\""
      [] x.t = "bool" -> (IF x.v THEN "true" ELSE "false")
      [] x.t = "int" -> ToString(x.v)
      [] x.t = "list" ->
            "[" \o Join([i \in 1..Len(x.v) |-> json_dumps(x.v[i])], ", ") \o "]"
      [] x.t = "dict" ->
            "{" \o Join([i \in 1..Len(x.v) |->
                            "\"" \o x.v[i][1] \o "\": " \o json_dumps(x.v[i][2])], ", ")
                \o "}"

\* d[key] of a tagged dict.
Lookup(d, key) == d.v[CHOOSE i \in 1..Len(d.v) : d.v[i][1] = key][2]

(***************************************************************************)
(* Unit statuses (ops.model): the kind and the message.                    *)
(***************************************************************************)
BlockedStatus(msg) == [kind |-> "blocked", msg |-> msg]
WaitingStatus(msg) == [kind |-> "waiting", msg |-> msg]
ActiveStatus == [kind |-> "active", msg |-> ""]
UnknownStatus == [kind |-> "unknown", msg |-> ""]
\* The value of `possible_blocked_status` when the assembly returned None.
NoStatus == [kind |-> "none", msg |-> ""]

MsgNeedsDb == "requires relating to: finos-legend-db-k8s"
MsgNeedsGitlab == "requires relating to: finos-legend-gitlab-integrator-k8s"
MsgBadLogging ==
    "one or more logging config options are improperly formatted or missing, please review the debug-log for more details"
MsgNeedsSdlc == "requires relating to: finos-legend-sdlc-k8s, finos-legend-engine-k8s"
MsgNeedsEngine == "requires relating to: finos-legend-engine-k8s"
MsgNeedsRelations ==
    "requires relating to: finos-legend-db-k8s, finos-legend-gitlab-integrator-k8s"
MsgAwaitingDb == "awaiting legend db relation data"
MsgGitlabFailed ==
    "failed to retrieve GitLab creds from relation data, ensure finos-legend-gitlab-integrator-k8s is compatible"
MsgAwaitingGitlab == "awaiting legend gitlab credentials from integrator"
MsgAwaitingSdlc == "waiting for legend sdlc to report service URL."
MsgAwaitingEngine == "waiting for legend engine to report service url"

(***************************************************************************)
(* _get_logging_level_from_config: the option's value, or None when it is  *)
(* not a valid java.utils.logging level.                                   *)
(***************************************************************************)
get_logging_level_from_config(cfg, option_name) ==
    LET value == cfg[option_name] IN
    IF value \notin VALID_APPLICATION_LOG_LEVEL_SETTINGS THEN None ELSE value

\* _add_ui_config_from_relation_data checking the Engine URL before the SDLC URL.
add_ui_config_from_relation_data_engine_first(sdlc_url, engine_url) ==
    IF ~TruthyStr(engine_url) THEN
        [blocked |-> BlockedStatus(MsgNeedsEngine), doc |-> PyDict(<<>>)]
    ELSE IF ~TruthyStr(sdlc_url) THEN
        [blocked |-> BlockedStatus(MsgNeedsSdlc), doc |-> PyDict(<<>>)]
    ELSE
        [blocked |-> NoStatus,
         doc |-> PyDict(<<
            <<"appName", PyStr("studio")>>,
            <<"env", PyStr("test")>>,
            <<"sdlc", PyDict(<< <<"url", PyStr(sdlc_url)>> >>)>>,
            <<"metadata", PyDict(<< <<"url", PyStr("__LEGEND_DEPOT_URL__/api")>> >>)>>,
            <<"engine", PyDict(<< <<"url", PyStr(engine_url)>> >>)>>,
            <<"documentation", PyDict(<< <<"url", PyStr("https://legend.finos.org")>> >>)>>,
            <<"options", PyDict(<<
                <<"core", PyDict(<<
                    <<"TEMPORARY__disableServiceRegistration", PyBool(TRUE)>> >>)>> >>)>>
         >>)]

(***************************************************************************)
(* _add_ui_config_from_relation_data: the blocked status it returns (or    *)
(* NoStatus) and the dict it was given, updated.                           *)
(***************************************************************************)
add_ui_config_from_relation_data(sdlc_url, engine_url) ==
    IF ~TruthyStr(sdlc_url) THEN
        [blocked |-> BlockedStatus(MsgNeedsSdlc), doc |-> PyDict(<<>>)]
    ELSE IF ~TruthyStr(engine_url) THEN
        [blocked |-> BlockedStatus(MsgNeedsEngine), doc |-> PyDict(<<>>)]
    ELSE
        [blocked |-> NoStatus,
         doc |-> PyDict(<<
            <<"appName", PyStr("studio")>>,
            <<"env", PyStr("test")>>,
            <<"sdlc", PyDict(<< <<"url", PyStr(sdlc_url)>> >>)>>,
            <<"metadata", PyDict(<< <<"url", PyStr("__LEGEND_DEPOT_URL__/api")>> >>)>>,
            <<"engine", PyDict(<< <<"url", PyStr(engine_url)>> >>)>>,
            <<"documentation", PyDict(<< <<"url", PyStr("https://legend.finos.org")>> >>)>>,
            <<"options", PyDict(<<
                <<"core", PyDict(<<
                    <<"TEMPORARY__disableServiceRegistration", PyBool(TRUE)>> >>)>> >>)>>
         >>)]

(***************************************************************************)
(* _add_base_service_config_from_charm_config.                             *)
(***************************************************************************)
add_base_service_config_from_charm_config(mongo_creds, legend_gitlab_creds, cfg) ==
    IF ~TruthyDict(mongo_creds) THEN
        [blocked |-> BlockedStatus(MsgNeedsDb), doc |-> PyDict(<<>>)]
    ELSE IF ~TruthyDict(legend_gitlab_creds) THEN
        [blocked |-> BlockedStatus(MsgNeedsGitlab), doc |-> PyDict(<<>>)]
    ELSE
        LET pac4j_logging_level ==
                get_logging_level_from_config(cfg, "server_pac4j_logging_level")
            server_logging_level ==
                get_logging_level_from_config(cfg, "server_logging_level")
        IN
        IF ~(TruthyStr(server_logging_level) /\ TruthyStr(pac4j_logging_level)) THEN
            [blocked |-> BlockedStatus(MsgBadLogging), doc |-> PyDict(<<>>)]
        ELSE
            [blocked |-> NoStatus,
             doc |-> PyDict(<<
                <<"uiPath", PyStr(APPLICATION_SERVER_UI_PATH)>>,
                <<"html5Router", PyBool(TRUE)>>,
                <<"server", PyDict(<<
                    <<"type", PyStr("simple")>>,
                    <<"applicationContextPath", PyStr("/")>>,
                    <<"adminContextPath", PyStr(APPLICATION_SERVER_UI_PATH \o "/admin")>>,
                    <<"connector", PyDict(<<
                        <<"type", PyStr(APPLICATION_CONNECTOR_TYPE_HTTP)>>,
                        <<"port", PyInt(APPLICATION_CONNECTOR_PORT_HTTP)>> >>)>> >>)>>,
                <<"logging", PyDict(<<
                    <<"level", PyStr(server_logging_level)>>,
                    <<"loggers", PyDict(<<
                        <<"root", PyDict(<< <<"level", PyStr(server_logging_level)>> >>)>>,
                        <<"org.pac4j", PyDict(<< <<"level", PyStr(pac4j_logging_level)>> >>)>>
                    >>)>>,
                    <<"appenders", PyList(<< PyDict(<< <<"type", PyStr("console")>> >>) >>)>>
                >>)>>,
                <<"pac4j", PyDict(<<
                    <<"callbackPrefix", PyStr("/studio/log.in")>>,
                    <<"bypassPaths", PyList(<< PyStr("/studio/admin/healthcheck") >>)>>,
                    <<"mongoUri", PyStr(Join(mongo_creds.uri, "/"))>>,
                    <<"mongoDb", PyStr(mongo_creds.database)>>,
                    <<"clients", PyList(<< PyDict(<<
                        <<"org.finos.legend.server.pac4j.gitlab.GitlabClient", PyDict(<<
                            <<"name", PyStr("gitlab")>>,
                            <<"clientId", PyStr(legend_gitlab_creds.client_id)>>,
                            <<"secret", PyStr(legend_gitlab_creds.client_secret)>>,
                            <<"discoveryUri", PyStr(legend_gitlab_creds.openid_discovery_url)>>,
                            <<"scope", PyStr(Join(GITLAB_REQUIRED_SCOPES, " "))>>
                        >>)>> >>) >>)>>,
                    <<"mongoSession", PyDict(<<
                        <<"enabled", PyBool(TRUE)>>,
                        <<"collection", PyStr("userSessions")>> >>)>>
                >>)>>,
                <<"routerExemptPaths", PyList(<<
                    PyStr("/editor.worker.js"), PyStr("/json.worker.js"),
                    PyStr("/editor.worker.js.map"), PyStr("/json.worker.js.map"),
                    PyStr("/version.json"), PyStr("/config.json"),
                    PyStr("/favicon.ico"), PyStr("/static") >>)>>,
                <<"localAssetPaths", PyDict(<<
                    <<"/studio/config.json",
                      PyStr(STUDIO_UI_CONFIG_FILE_CONTAINER_LOCAL_PATH)>> >>)>>
             >>)]

(***************************************************************************)
(* The workload container through the Pebble API.                          *)
(***************************************************************************)
ConfigPaths == {STUDIO_HTTP_CONFIG_FILE_CONTAINER_LOCAL_PATH,
                STUDIO_UI_CONFIG_FILE_CONTAINER_LOCAL_PATH}
\* The content of a path nothing was pushed to.
NoFile == ""

\* One call made by a handler, as recorded in last_ops.
Op(name, arg) == [op |-> name, arg |-> arg]
OpPush(path) == Op("push", path)
OpRestart == Op("restart", "studio")
OpAddLayer == Op("add_layer", "studio")
OpDefer(kind) == Op("defer", kind)
OpSetStatus(st) == Op("status", st.kind)
OpSetRelationData == Op("relation_data", "redirect_uris")

\* json.dumps of every document the inputs above can produce, computed once.
LoggingValid(cfg) ==
    /\ cfg.server_logging_level \in VALID_APPLICATION_LOG_LEVEL_SETTINGS
    /\ cfg.server_pac4j_logging_level \in VALID_APPLICATION_LOG_LEVEL_SETTINGS
Documents ==
    {add_base_service_config_from_charm_config(m, g, c).doc :
        m \in DbCreds, g \in GitlabCreds, c \in {cfg \in Configs : LoggingValid(cfg)}}
    \cup {add_ui_config_from_relation_data(s, e).doc : s \in SdlcUrls, e \in EngineUrls}
    \cup {PyDict(<<>>)}
Serialized == [d \in Documents |-> json_dumps(d)]

\* _add_config_file_to_container writing at the end of the file it finds.
add_config_file_to_container_append(fs, container_path, cfg) ==
    [fs EXCEPT ![container_path] = fs[container_path] \o Serialized[cfg]]

\* _add_config_file_to_container: container.push(path, json.dumps(config)),
\* which replaces the file's content.
add_config_file_to_container(fs, container_path, cfg) ==
    [fs EXCEPT ![container_path] = Serialized[cfg]]

\* The layer _on_studio_pebble_ready builds.
StudioLayer ==
    [label |-> "studio", service |-> "studio", override |-> "replace",
     startup |-> "disabled",
     command |-> "/bin/sh -c 'java -XX:+ExitOnOutOfMemoryError -Xss4M -XX:MaxRAMPercentage=60 -Dfile.encoding=UTF8 -cp /app/bin/webapp-content:/app/bin/* org.finos.legend.server.shared.staticserver.Server server "
                 \o STUDIO_HTTP_CONFIG_FILE_CONTAINER_LOCAL_PATH \o "'"]

\* container.add_layer without combine: the layer is always appended.
add_layer_no_combine(ls, layer) == Append(ls, layer)

\* container.add_layer(label, layer, combine=True): a layer with that label is
\* combined in place (override: replace), otherwise the layer is appended.
add_layer(ls, layer) ==
    IF \E i \in 1..Len(ls) : ls[i].label = layer.label
    THEN [i \in 1..Len(ls) |-> IF ls[i].label = layer.label THEN layer ELSE ls[i]]
    ELSE Append(ls, layer)

\* _reconfigure_studio_service without the check of the UI document's status:
\* it deploys as soon as the base document is assembled.
reconfigure_studio_service_no_ui_check(mongo_creds, gitlab_creds, sdlc_url, engine_url, cfg, conn, fs) ==
    LET base == add_base_service_config_from_charm_config(mongo_creds, gitlab_creds, cfg)
        ui == add_ui_config_from_relation_data(sdlc_url, engine_url)
        fs1 == add_config_file_to_container(
                   fs, STUDIO_HTTP_CONFIG_FILE_CONTAINER_LOCAL_PATH, base.doc)
        fs2 == add_config_file_to_container(
                   fs1, STUDIO_UI_CONFIG_FILE_CONTAINER_LOCAL_PATH, ui.doc)
    IN
    IF base.blocked # NoStatus THEN
        [status |-> base.blocked, files |-> fs, restarted |-> FALSE,
         ops |-> << Op("assemble", "base"), OpSetStatus(base.blocked) >>]
    ELSE IF conn THEN
        [status |-> ActiveStatus, files |-> fs2, restarted |-> TRUE,
         ops |-> << Op("assemble", "base"), Op("assemble", "ui"),
                    OpPush(STUDIO_HTTP_CONFIG_FILE_CONTAINER_LOCAL_PATH),
                    OpPush(STUDIO_UI_CONFIG_FILE_CONTAINER_LOCAL_PATH),
                    OpRestart, OpSetStatus(ActiveStatus) >>]
    ELSE
        [status |-> BlockedStatus(MsgNeedsRelations), files |-> fs, restarted |-> FALSE,
         ops |-> << Op("assemble", "base"), Op("assemble", "ui"),
                    OpSetStatus(BlockedStatus(MsgNeedsRelations)) >>]

\* _reconfigure_studio_service restarting the service before it pushes the UI
\* document.
reconfigure_studio_service_restart_early(mongo_creds, gitlab_creds, sdlc_url, engine_url, cfg, conn, fs) ==
    LET base == add_base_service_config_from_charm_config(mongo_creds, gitlab_creds, cfg)
        ui == add_ui_config_from_relation_data(sdlc_url, engine_url)
        fs1 == add_config_file_to_container(
                   fs, STUDIO_HTTP_CONFIG_FILE_CONTAINER_LOCAL_PATH, base.doc)
        fs2 == add_config_file_to_container(
                   fs1, STUDIO_UI_CONFIG_FILE_CONTAINER_LOCAL_PATH, ui.doc)
    IN
    IF base.blocked # NoStatus THEN
        [status |-> base.blocked, files |-> fs, restarted |-> FALSE,
         ops |-> << Op("assemble", "base"), OpSetStatus(base.blocked) >>]
    ELSE IF ui.blocked # NoStatus THEN
        [status |-> ui.blocked, files |-> fs, restarted |-> FALSE,
         ops |-> << Op("assemble", "base"), Op("assemble", "ui"),
                    OpSetStatus(ui.blocked) >>]
    ELSE IF conn THEN
        [status |-> ActiveStatus, files |-> fs2, restarted |-> TRUE,
         ops |-> << Op("assemble", "base"), Op("assemble", "ui"),
                    OpPush(STUDIO_HTTP_CONFIG_FILE_CONTAINER_LOCAL_PATH),
                    OpRestart,
                    OpPush(STUDIO_UI_CONFIG_FILE_CONTAINER_LOCAL_PATH),
                    OpSetStatus(ActiveStatus) >>]
    ELSE
        [status |-> BlockedStatus(MsgNeedsRelations), files |-> fs, restarted |-> FALSE,
         ops |-> << Op("assemble", "base"), Op("assemble", "ui"),
                    OpSetStatus(BlockedStatus(MsgNeedsRelations)) >>]

\* _reconfigure_studio_service assembling the UI document before it looks at
\* the outcome of the base-service assembly.
reconfigure_studio_service_both_always(mongo_creds, gitlab_creds, sdlc_url, engine_url, cfg, conn, fs) ==
    LET base == add_base_service_config_from_charm_config(mongo_creds, gitlab_creds, cfg)
        ui == add_ui_config_from_relation_data(sdlc_url, engine_url)
        fs1 == add_config_file_to_container(
                   fs, STUDIO_HTTP_CONFIG_FILE_CONTAINER_LOCAL_PATH, base.doc)
        fs2 == add_config_file_to_container(
                   fs1, STUDIO_UI_CONFIG_FILE_CONTAINER_LOCAL_PATH, ui.doc)
    IN
    IF base.blocked # NoStatus THEN
        [status |-> base.blocked, files |-> fs, restarted |-> FALSE,
         ops |-> << Op("assemble", "base"), Op("assemble", "ui"),
                    OpSetStatus(base.blocked) >>]
    ELSE IF ui.blocked # NoStatus THEN
        [status |-> ui.blocked, files |-> fs, restarted |-> FALSE,
         ops |-> << Op("assemble", "base"), Op("assemble", "ui"),
                    OpSetStatus(ui.blocked) >>]
    ELSE IF conn THEN
        [status |-> ActiveStatus, files |-> fs2, restarted |-> TRUE,
         ops |-> << Op("assemble", "base"), Op("assemble", "ui"),
                    OpPush(STUDIO_HTTP_CONFIG_FILE_CONTAINER_LOCAL_PATH),
                    OpPush(STUDIO_UI_CONFIG_FILE_CONTAINER_LOCAL_PATH),
                    OpRestart, OpSetStatus(ActiveStatus) >>]
    ELSE
        [status |-> BlockedStatus(MsgNeedsRelations), files |-> fs, restarted |-> FALSE,
         ops |-> << Op("assemble", "base"), Op("assemble", "ui"),
                    OpSetStatus(BlockedStatus(MsgNeedsRelations)) >>]

(***************************************************************************)
(* _reconfigure_studio_service: the status it sets, the files after it,    *)
(* whether it restarted the service, and the calls it made in order.       *)
(***************************************************************************)
reconfigure_studio_service(mongo_creds, gitlab_creds, sdlc_url, engine_url, cfg, conn, fs) ==
    LET base == add_base_service_config_from_charm_config(mongo_creds, gitlab_creds, cfg)
        ui == add_ui_config_from_relation_data(sdlc_url, engine_url)
        fs1 == add_config_file_to_container(
                   fs, STUDIO_HTTP_CONFIG_FILE_CONTAINER_LOCAL_PATH, base.doc)
        fs2 == add_config_file_to_container(
                   fs1, STUDIO_UI_CONFIG_FILE_CONTAINER_LOCAL_PATH, ui.doc)
    IN
    IF base.blocked # NoStatus THEN
        [status |-> base.blocked, files |-> fs, restarted |-> FALSE,
         ops |-> << Op("assemble", "base"), OpSetStatus(base.blocked) >>]
    ELSE IF ui.blocked # NoStatus THEN
        [status |-> ui.blocked, files |-> fs, restarted |-> FALSE,
         ops |-> << Op("assemble", "base"), Op("assemble", "ui"),
                    OpSetStatus(ui.blocked) >>]
    ELSE IF conn THEN
        [status |-> ActiveStatus, files |-> fs2, restarted |-> TRUE,
         ops |-> << Op("assemble", "base"), Op("assemble", "ui"),
                    OpPush(STUDIO_HTTP_CONFIG_FILE_CONTAINER_LOCAL_PATH),
                    OpPush(STUDIO_UI_CONFIG_FILE_CONTAINER_LOCAL_PATH),
                    OpRestart, OpSetStatus(ActiveStatus) >>]
    ELSE
        [status |-> BlockedStatus(MsgNeedsRelations), files |-> fs, restarted |-> FALSE,
         ops |-> << Op("assemble", "base"), Op("assemble", "ui"),
                    OpSetStatus(BlockedStatus(MsgNeedsRelations)) >>]

\* _get_studio_service_url returning the bare address.
get_studio_service_url_bare_address(ip_address) == ip_address

\* _get_studio_service_url, given the address `unit-get private-address` prints.
get_studio_service_url(ip_address) ==
    "http" \o "://" \o ip_address \o ":" \o ToString(APPLICATION_CONNECTOR_PORT_HTTP)
        \o APPLICATION_SERVER_UI_PATH

\* STUDIO_GITLAB_REDIRECT_URI_FORMAT % {"base_url": base_url}
gitlab_redirect_uri(base_url) == base_url \o "/log.in/callback"

(***************************************************************************)
(* The state after construction: _set_stored_defaults has filled the four  *)
(* slots, no status was set, nothing was pushed.  The charm config and the *)
(* reachability of the container are whatever the deployment gives.        *)
(***************************************************************************)
OutOfScenario == [step |-> -1, restarts |-> 0]

Init ==
    /\ config \in Configs
    /\ legend_db_credentials = EmptyDict
    /\ legend_gitlab_credentials = EmptyDict
    /\ sdlc_service_url = ""
    /\ engine_service_url = ""
    /\ status = UnknownStatus
    /\ can_connect \in BOOLEAN
    /\ files = [p \in ConfigPaths |-> NoFile]
    /\ layers = <<>>
    /\ deferred = {}
    /\ gitlab_app_data = <<>>
    /\ last_event = "init"
    /\ last_payload = "none"
    /\ last_data = ""
    /\ last_ops = <<>>
    /\ fault = FALSE
    /\ scenario = IF LoggingValid(config) /\ can_connect
                  THEN [step |-> 0, restarts |-> 0]
                  ELSE OutOfScenario

\* How many times a handler made the call `o`.
Count(ops, o) == Cardinality({i \in 1..Len(ops) : ops[i] = o})

\* The scenario "db data, gitlab data, SDLC URL, Engine URL, each delivered once
\* to a fresh unit with valid logging options and a reachable container":
\* scenario.step counts the deliveries made so far and scenario.restarts the
\* restarts they issued; step is -1 once the run has left the scenario.
ScenarioOrder == <<"db_relation_changed", "legend_gitlab_relation_changed",
                   "sdlc_relation_changed", "engine_relation_changed">>
ScenarioAfter(event, payload_kind, ops) ==
    IF /\ scenario.step \in 0..(Len(ScenarioOrder) - 1)
       /\ event = ScenarioOrder[scenario.step + 1]
       /\ payload_kind = "data"
    THEN [step |-> scenario.step + 1,
          restarts |-> scenario.restarts + Count(ops, OpRestart)]
    ELSE OutOfScenario

\* An event that carries no relation data.
NoPayload == [kind |-> "none", data |-> ""]

\* A config-changed event: "redelivered" when it brings the config the unit
\* already has while the unit is active, "new" otherwise.
ConfigPayload(new_config) ==
    [kind |-> IF new_config = config /\ status = ActiveStatus
              THEN "redelivered" ELSE "new",
     data |-> ""]

\* What every handler records about itself.
Handled(event, payload, faulted) ==
    /\ last_event' = event
    /\ last_payload' = payload.kind
    /\ last_data' = payload.data
    /\ fault' = faulted
    /\ scenario' = ScenarioAfter(event, payload.kind, last_ops')

\* A handler's tail call of _reconfigure_studio_service, on the slots and the
\* config as the handler left them.
Reconfigure(mongo_creds, gitlab_creds, sdlc_url, engine_url, cfg) ==
    LET r == reconfigure_studio_service(
                 mongo_creds, gitlab_creds, sdlc_url, engine_url, cfg, can_connect, files)
    IN /\ status' = r.status
       /\ files' = r.files
       /\ last_ops' = r.ops

\* event.defer(), and the removal of a deferred event that is run again.
Deferral(kind, redelivered, defers) ==
    /\ redelivered => kind \in deferred
    /\ deferred' = IF defers THEN deferred \cup {kind}
                   ELSE IF redelivered THEN deferred \ {kind}
                   ELSE deferred

(***************************************************************************)
(* The handlers.                                                           *)
(***************************************************************************)
\* _on_config_changed with a "nothing changed" short cut.
on_config_changed_skip_unchanged(new_config) ==
    /\ config' = new_config
    /\ UNCHANGED <<legend_db_credentials, legend_gitlab_credentials,
                   sdlc_service_url, engine_service_url>>
    /\ IF new_config = config
       THEN /\ last_ops' = <<>>
            /\ UNCHANGED <<status, files>>
       ELSE Reconfigure(legend_db_credentials, legend_gitlab_credentials,
                        sdlc_service_url, engine_service_url, new_config)
    /\ Handled("config_changed", ConfigPayload(new_config), FALSE)
    /\ UNCHANGED <<can_connect, layers, deferred, gitlab_app_data>>

\* _on_config_changed
on_config_changed(new_config) ==
    /\ config' = new_config
    /\ UNCHANGED <<legend_db_credentials, legend_gitlab_credentials,
                   sdlc_service_url, engine_service_url>>
    /\ Reconfigure(legend_db_credentials, legend_gitlab_credentials,
                   sdlc_service_url, engine_service_url, new_config)
    /\ Handled("config_changed", ConfigPayload(new_config), FALSE)
    /\ UNCHANGED <<can_connect, layers, deferred, gitlab_app_data>>

\* The host emits pebble-ready for a container whose Pebble answers.
on_studio_pebble_ready ==
    /\ can_connect
    /\ layers' = add_layer(layers, StudioLayer)
    /\ status' = BlockedStatus(MsgNeedsRelations)
    /\ last_ops' = << OpAddLayer, OpSetStatus(BlockedStatus(MsgNeedsRelations)) >>
    /\ Handled("studio_pebble_ready", NoPayload, FALSE)
    /\ UNCHANGED <<config, legend_db_credentials, legend_gitlab_credentials,
                   sdlc_service_url, engine_service_url, can_connect, files,
                   deferred, gitlab_app_data>>

\* What a handler that only logs leaves behind.
OnlyLogs ==
    /\ last_ops' = <<>>
    /\ UNCHANGED <<config, legend_db_credentials, legend_gitlab_credentials,
                   sdlc_service_url, engine_service_url, status, can_connect,
                   files, layers, deferred, gitlab_app_data>>

\* _on_db_relation_joined
on_db_relation_joined ==
    /\ OnlyLogs
    /\ Handled("db_relation_joined", NoPayload, FALSE)

\* _on_sdlc_relation_joined
on_sdlc_relation_joined ==
    /\ OnlyLogs
    /\ Handled("sdlc_relation_joined", NoPayload, FALSE)

\* _on_engine_relation_joined
on_engine_relation_joined ==
    /\ OnlyLogs
    /\ Handled("engine_relation_joined", NoPayload, FALSE)

\* _on_db_relation_changed storing the credentials without a call of
\* _reconfigure_studio_service.
on_db_relation_changed_no_reconfigure(payload, redelivered) ==
    /\ IF payload.kind = "malformed" THEN
            /\ Deferral("db", redelivered, redelivered)
            /\ last_ops' = <<>>
            /\ Handled("db_relation_changed", payload, TRUE)
            /\ UNCHANGED <<legend_db_credentials, status, files>>
       ELSE IF ~TruthyDict(payload.data) THEN
            /\ status' = WaitingStatus(MsgAwaitingDb)
            /\ Deferral("db", redelivered, TRUE)
            /\ last_ops' = << OpSetStatus(WaitingStatus(MsgAwaitingDb)), OpDefer("db") >>
            /\ Handled("db_relation_changed", payload, FALSE)
            /\ UNCHANGED <<legend_db_credentials, files>>
       ELSE
            /\ legend_db_credentials' = payload.data
            /\ Deferral("db", redelivered, FALSE)
            /\ last_ops' = <<>>
            /\ Handled("db_relation_changed", payload, FALSE)
            /\ UNCHANGED <<status, files>>
    /\ UNCHANGED <<config, legend_gitlab_credentials, sdlc_service_url,
                   engine_service_url, can_connect, layers, gitlab_app_data>>

\* _on_db_relation_changed.  get_legend_database_creds is called outside any
\* try block: when it raises, the exception leaves the handler.
on_db_relation_changed(payload, redelivered) ==
    /\ IF payload.kind = "malformed" THEN
            /\ Deferral("db", redelivered, redelivered)
            /\ last_ops' = <<>>
            /\ Handled("db_relation_changed", payload, TRUE)
            /\ UNCHANGED <<legend_db_credentials, status, files>>
       ELSE IF ~TruthyDict(payload.data) THEN
            /\ status' = WaitingStatus(MsgAwaitingDb)
            /\ Deferral("db", redelivered, TRUE)
            /\ last_ops' = << OpSetStatus(WaitingStatus(MsgAwaitingDb)), OpDefer("db") >>
            /\ Handled("db_relation_changed", payload, FALSE)
            /\ UNCHANGED <<legend_db_credentials, files>>
       ELSE
            /\ legend_db_credentials' = payload.data
            /\ Deferral("db", redelivered, FALSE)
            /\ Reconfigure(payload.data, legend_gitlab_credentials,
                           sdlc_service_url, engine_service_url, config)
            /\ Handled("db_relation_changed", payload, FALSE)
    /\ UNCHANGED <<config, legend_gitlab_credentials, sdlc_service_url,
                   engine_service_url, can_connect, layers, gitlab_app_data>>

\* _on_legend_gitlab_relation_joined
on_legend_gitlab_relation_joined(ip_address) ==
    /\ gitlab_app_data' = << gitlab_redirect_uri(get_studio_service_url(ip_address)) >>
    /\ last_ops' = << OpSetRelationData >>
    /\ Handled("legend_gitlab_relation_joined", NoPayload, FALSE)
    /\ UNCHANGED <<config, legend_db_credentials, legend_gitlab_credentials,
                   sdlc_service_url, engine_service_url, status, can_connect,
                   files, layers, deferred>>

\* _on_legend_gitlab_relation_changed without the try block around
\* get_legend_gitlab_creds.
on_legend_gitlab_relation_changed_no_try(payload, redelivered) ==
    /\ IF payload.kind = "malformed" THEN
            /\ Deferral("gitlab", redelivered, redelivered)
            /\ last_ops' = <<>>
            /\ Handled("legend_gitlab_relation_changed", payload, TRUE)
            /\ UNCHANGED <<legend_gitlab_credentials, status, files>>
       ELSE IF ~TruthyDict(payload.data) THEN
            /\ status' = WaitingStatus(MsgAwaitingGitlab)
            /\ Deferral("gitlab", redelivered, TRUE)
            /\ last_ops' = << OpSetStatus(WaitingStatus(MsgAwaitingGitlab)),
                              OpDefer("gitlab") >>
            /\ Handled("legend_gitlab_relation_changed", payload, FALSE)
            /\ UNCHANGED <<legend_gitlab_credentials, files>>
       ELSE
            /\ legend_gitlab_credentials' = payload.data
            /\ Deferral("gitlab", redelivered, FALSE)
            /\ Reconfigure(legend_db_credentials, payload.data,
                           sdlc_service_url, engine_service_url, config)
            /\ Handled("legend_gitlab_relation_changed", payload, FALSE)
    /\ UNCHANGED <<config, legend_db_credentials, sdlc_service_url,
                   engine_service_url, can_connect, layers, gitlab_app_data>>

\* _on_legend_gitlab_relation_changed
on_legend_gitlab_relation_changed(payload, redelivered) ==
    /\ IF payload.kind = "malformed" THEN
            /\ status' = BlockedStatus(MsgGitlabFailed)
            /\ Deferral("gitlab", redelivered, FALSE)
            /\ last_ops' = << OpSetStatus(BlockedStatus(MsgGitlabFailed)) >>
            /\ UNCHANGED <<legend_gitlab_credentials, files>>
       ELSE IF ~TruthyDict(payload.data) THEN
            /\ status' = WaitingStatus(MsgAwaitingGitlab)
            /\ Deferral("gitlab", redelivered, TRUE)
            /\ last_ops' = << OpSetStatus(WaitingStatus(MsgAwaitingGitlab)),
                              OpDefer("gitlab") >>
            /\ UNCHANGED <<legend_gitlab_credentials, files>>
       ELSE
            /\ legend_gitlab_credentials' = payload.data
            /\ Deferral("gitlab", redelivered, FALSE)
            /\ Reconfigure(legend_db_credentials, payload.data,
                           sdlc_service_url, engine_service_url, config)
    /\ Handled("legend_gitlab_relation_changed", payload, FALSE)
    /\ UNCHANGED <<config, legend_db_credentials, sdlc_service_url,
                   engine_service_url, can_connect, layers, gitlab_app_data>>

\* _on_sdlc_relation_changed storing what it read before it checks it.
on_sdlc_relation_changed_store_first(payload) ==
    /\ sdlc_service_url' = payload.data
    /\ IF ~TruthyStr(payload.data) THEN
            /\ status' = WaitingStatus(MsgAwaitingSdlc)
            /\ last_ops' = << OpSetStatus(WaitingStatus(MsgAwaitingSdlc)) >>
            /\ UNCHANGED files
       ELSE
            Reconfigure(legend_db_credentials, legend_gitlab_credentials,
                        payload.data, engine_service_url, config)
    /\ Handled("sdlc_relation_changed", payload, FALSE)
    /\ UNCHANGED <<config, legend_db_credentials, legend_gitlab_credentials,
                   engine_service_url, can_connect, layers, deferred, gitlab_app_data>>

\* _on_sdlc_relation_changed
on_sdlc_relation_changed(payload) ==
    /\ IF ~TruthyStr(payload.data) THEN
            /\ status' = WaitingStatus(MsgAwaitingSdlc)
            /\ last_ops' = << OpSetStatus(WaitingStatus(MsgAwaitingSdlc)) >>
            /\ UNCHANGED <<sdlc_service_url, files>>
       ELSE
            /\ sdlc_service_url' = payload.data
            /\ Reconfigure(legend_db_credentials, legend_gitlab_credentials,
                           payload.data, engine_service_url, config)
    /\ Handled("sdlc_relation_changed", payload, FALSE)
    /\ UNCHANGED <<config, legend_db_credentials, legend_gitlab_credentials,
                   engine_service_url, can_connect, layers, deferred, gitlab_app_data>>

\* _on_engine_relation_changed
on_engine_relation_changed(payload) ==
    /\ IF ~TruthyStr(payload.data) THEN
            /\ status' = WaitingStatus(MsgAwaitingEngine)
            /\ last_ops' = << OpSetStatus(WaitingStatus(MsgAwaitingEngine)) >>
            /\ UNCHANGED <<engine_service_url, files>>
       ELSE
            /\ engine_service_url' = payload.data
            /\ Reconfigure(legend_db_credentials, legend_gitlab_credentials,
                           sdlc_service_url, payload.data, config)
    /\ Handled("engine_relation_changed", payload, FALSE)
    /\ UNCHANGED <<config, legend_db_credentials, legend_gitlab_credentials,
                   sdlc_service_url, can_connect, layers, deferred, gitlab_app_data>>

(***************************************************************************)
(* The operator process is started anew for an event: __init__ runs        *)
(* _set_stored_defaults on the StoredState the previous process left.      *)
(***************************************************************************)
\* The keys the StoredState holds once the charm was constructed.
StoredKeys == {"log_level", "legend_db_credentials", "legend_gitlab_credentials",
               "sdlc_service_url", "engine_service_url"}

\* A set_default that assigns the default whatever the slot holds.
set_default_overwrite(keys, key, current, default) == default

\* StoredState.set_default for one key: the default goes in only where the
\* key is not stored yet.
set_default(keys, key, current, default) ==
    IF key \in keys THEN current ELSE default

\* _set_stored_defaults, called by __init__
set_stored_defaults ==
    /\ legend_db_credentials' =
           set_default(StoredKeys, "legend_db_credentials",
                       legend_db_credentials, EmptyDict)
    /\ legend_gitlab_credentials' =
           set_default(StoredKeys, "legend_gitlab_credentials",
                       legend_gitlab_credentials, EmptyDict)
    /\ sdlc_service_url' =
           set_default(StoredKeys, "sdlc_service_url", sdlc_service_url, "")
    /\ engine_service_url' =
           set_default(StoredKeys, "engine_service_url", engine_service_url, "")
    /\ last_ops' = <<>>
    /\ Handled("set_stored_defaults", NoPayload, FALSE)
    /\ UNCHANGED <<config, status, can_connect, files, layers, deferred,
                   gitlab_app_data>>

(***************************************************************************)
(* The environment: the workload container's Pebble becomes reachable or   *)
(* unreachable between two events.                                         *)
(***************************************************************************)
container_up ==
    /\ ~can_connect
    /\ can_connect' = TRUE
    /\ last_ops' = <<>>
    /\ Handled("container_up", NoPayload, FALSE)
    /\ UNCHANGED <<config, legend_db_credentials, legend_gitlab_credentials,
                   sdlc_service_url, engine_service_url, status, files, layers,
                   deferred, gitlab_app_data>>

container_down ==
    /\ can_connect
    /\ can_connect' = FALSE
    /\ last_ops' = <<>>
    /\ Handled("container_down", NoPayload, FALSE)
    /\ UNCHANGED <<config, legend_db_credentials, legend_gitlab_credentials,
                   sdlc_service_url, engine_service_url, status, files, layers,
                   deferred, gitlab_app_data>>

Next ==
    \/ set_stored_defaults
    \/ \E c \in Configs : on_config_changed(c)
    \/ on_studio_pebble_ready
    \/ on_db_relation_joined
    \/ \E p \in DbPayloads, r \in BOOLEAN : on_db_relation_changed(p, r)
    \/ \E ip \in UnitAddresses : on_legend_gitlab_relation_joined(ip)
    \/ \E p \in GitlabPayloads, r \in BOOLEAN : on_legend_gitlab_relation_changed(p, r)
    \/ on_sdlc_relation_joined
    \/ \E p \in SdlcPayloads : on_sdlc_relation_changed(p)
    \/ on_engine_relation_joined
    \/ \E p \in EnginePayloads : on_engine_relation_changed(p)
    \/ container_up
    \/ container_down

Spec == Init /\ [][Next]_vars

(***************************************************************************)
(* Vocabulary of the properties.                                           *)
(***************************************************************************)
AllPresent ==
    /\ TruthyDict(legend_db_credentials)
    /\ TruthyDict(legend_gitlab_credentials)
    /\ TruthyStr(sdlc_service_url)
    /\ TruthyStr(engine_service_url)

\* ReconciliationState = Ready
Ready == AllPresent /\ LoggingValid(config)

\* The last handler ran _reconfigure_studio_service.
ReconcilePass(ops) == Count(ops, Op("assemble", "base")) > 0
Wrote(ops) == \E i \in 1..Len(ops) : ops[i].op = "push"
Restarted(ops) == Count(ops, OpRestart) > 0
Position(ops, o) == CHOOSE i \in 1..Len(ops) : ops[i] = o

\* The documents the current slots and config give, serialized.
ExpectedHttpFile ==
    Serialized[add_base_service_config_from_charm_config(
                   legend_db_credentials, legend_gitlab_credentials, config).doc]
ExpectedUiFile ==
    Serialized[add_ui_config_from_relation_data(sdlc_service_url, engine_service_url).doc]

\* The preconditions of the chain, in the order of the specification, and the
\* first of them the current slots and config do not meet.
FirstUnmet ==
    IF ~TruthyDict(legend_db_credentials) THEN "db"
    ELSE IF ~TruthyDict(legend_gitlab_credentials) THEN "gitlab"
    ELSE IF ~LoggingValid(config) THEN "logging"
    ELSE IF ~TruthyStr(sdlc_service_url) THEN "sdlc"
    ELSE IF ~TruthyStr(engine_service_url) THEN "engine"
    ELSE "none"

\* What a status message names as missing: the relations whose charm it lists
\* after "requires relating to:", the logging options, or the container.
Names(msg) ==
    CASE msg = MsgNeedsDb -> {"db"}
      [] msg = MsgNeedsGitlab -> {"gitlab"}
      [] msg = MsgBadLogging -> {"logging"}
      [] msg = MsgNeedsSdlc -> {"sdlc", "engine"}
      [] msg = MsgNeedsEngine -> {"engine"}
      [] msg = MsgNeedsRelations -> {"db", "gitlab"}
      [] OTHER -> {}

(***************************************************************************)
(* C1.  A config file is written or the 'studio' service restarted only by *)
(* a reconciliation pass that finds all four slots non-empty and both      *)
(* logging options valid; a pass that finds one of them absent or invalid  *)
(* ends Blocked, writes no file and restarts nothing.                      *)
(***************************************************************************)
C1_Pass ==
    /\ (Wrote(last_ops) \/ Restarted(last_ops)) => (ReconcilePass(last_ops) /\ Ready)
    /\ (ReconcilePass(last_ops) /\ ~Ready) =>
            /\ status.kind = "blocked"
            /\ ~Wrote(last_ops)
            /\ ~Restarted(last_ops)

C1_Step ==
    /\ files' # files => (Wrote(last_ops') /\ ReconcilePass(last_ops') /\ Ready')
    /\ (ReconcilePass(last_ops') /\ ~Ready') => files' = files

\* C1: files are written and the service restarted only by a pass that finds
\* everything present and valid; any other pass ends Blocked and deploys nothing.
C1_DeploymentOnlyWhenReady == []C1_Pass /\ [][C1_Step]_vars

\* A pass that was blocked on a unit that had been deployed before.
C1_Witness ==
    /\ ReconcilePass(last_ops)
    /\ ~Ready
    /\ status.kind = "blocked"
    /\ files[STUDIO_HTTP_CONFIG_FILE_CONTAINER_LOCAL_PATH] # NoFile

(***************************************************************************)
(* C2.  A reconciliation that is blocked by an unmet precondition reports  *)
(* the reason of the first unmet precondition of the chain db, gitlab,     *)
(* logging, sdlc, engine, and names that precondition only.                *)
(***************************************************************************)
\* C2 (as claimed): the blocked pass names the first unmet precondition only.
C2_ExactlyOneReason ==
    (ReconcilePass(last_ops) /\ ~Ready) =>
        /\ status.kind = "blocked"
        /\ Names(status.msg) = {FirstUnmet}

(***************************************************************************)
(* C3.  A reconciliation that finds both documents assemblable and the     *)
(* container reachable writes the base document to /http-config.json and   *)
(* the UI document to /ui-config.json, restarts 'studio' once, after both  *)
(* writes, and sets Active after the restart.                              *)
(***************************************************************************)
\* C3: a ready pass on a reachable container pushes both documents, then
\* restarts once, then sets Active.
C3_DeployOrder ==
    (ReconcilePass(last_ops) /\ Ready /\ can_connect) =>
        LET push_http == OpPush(STUDIO_HTTP_CONFIG_FILE_CONTAINER_LOCAL_PATH)
            push_ui == OpPush(STUDIO_UI_CONFIG_FILE_CONTAINER_LOCAL_PATH)
            set_active == OpSetStatus(ActiveStatus)
        IN /\ Count(last_ops, push_http) = 1
           /\ Count(last_ops, push_ui) = 1
           /\ Count(last_ops, OpRestart) = 1
           /\ Count(last_ops, set_active) = 1
           /\ Position(last_ops, push_http) < Position(last_ops, OpRestart)
           /\ Position(last_ops, push_ui) < Position(last_ops, OpRestart)
           /\ Position(last_ops, OpRestart) < Position(last_ops, set_active)
           /\ files[STUDIO_HTTP_CONFIG_FILE_CONTAINER_LOCAL_PATH] = ExpectedHttpFile
           /\ files[STUDIO_UI_CONFIG_FILE_CONTAINER_LOCAL_PATH] = ExpectedUiFile
           /\ status = ActiveStatus

C3_Witness ==
    /\ ReconcilePass(last_ops)
    /\ Ready
    /\ can_connect
    /\ status = ActiveStatus

(***************************************************************************)
(* C4.  A reconciliation that finds both documents assemblable but the     *)
(* container unreachable ends Blocked with a reason that says the operator *)
(* awaits the workload container, writes no file and restarts nothing.     *)
(***************************************************************************)
\* C4 (as claimed): a ready pass on an unreachable container ends Blocked,
\* saying it awaits the container, and deploys nothing.
C4_AwaitingContainerReason ==
    (ReconcilePass(last_ops) /\ Ready /\ ~can_connect) =>
        /\ status.kind = "blocked"
        /\ Names(status.msg) = {"container"}
        /\ ~Wrote(last_ops)
        /\ ~Restarted(last_ops)

(***************************************************************************)
(* C5.  As claimed: when the four slots are cached, the logging options    *)
(* valid and the unit Blocked because the container was unreachable, the   *)
(* workload-ready event delivered once the container is reachable writes   *)
(* the two files, restarts the service and makes the unit Active.          *)
(***************************************************************************)
BlockedForContainer ==
    /\ Ready
    /\ status = BlockedStatus(MsgNeedsRelations)

C5_Original_Step ==
    (BlockedForContainer /\ can_connect /\ last_event' = "studio_pebble_ready") =>
        /\ status' = ActiveStatus
        /\ Wrote(last_ops')
        /\ Restarted(last_ops')

\* C5 (as claimed): the workload-ready event deploys and sets Active.
C5_PebbleReadyResolves == [][C5_Original_Step]_vars

(***************************************************************************)
(* C5, amended.  In that situation the workload-ready event leaves the     *)
(* unit Blocked and writes nothing; the unavailability is resolved by the  *)
(* next event that reconciles (a configuration-changed event, or a         *)
(* relation-changed event that carries data) while the container is        *)
(* reachable and the options are valid: it writes the two files, restarts  *)
(* the service and sets Active.                                            *)
(***************************************************************************)
C5_Amended_Step ==
    (BlockedForContainer /\ can_connect) =>
        /\ last_event' = "studio_pebble_ready" =>
                /\ status' = BlockedStatus(MsgNeedsRelations)
                /\ files' = files
                /\ ~Wrote(last_ops')
                /\ ~Restarted(last_ops')
        /\ (ReconcilePass(last_ops') /\ LoggingValid(config')) =>
                /\ status' = ActiveStatus
                /\ Count(last_ops', OpPush(STUDIO_HTTP_CONFIG_FILE_CONTAINER_LOCAL_PATH)) = 1
                /\ Count(last_ops', OpPush(STUDIO_UI_CONFIG_FILE_CONTAINER_LOCAL_PATH)) = 1
                /\ Count(last_ops', OpRestart) = 1
                /\ files'[STUDIO_HTTP_CONFIG_FILE_CONTAINER_LOCAL_PATH] = ExpectedHttpFile'
                /\ files'[STUDIO_UI_CONFIG_FILE_CONTAINER_LOCAL_PATH] = ExpectedUiFile'
        /\ last_event' = "config_changed" => ReconcilePass(last_ops')

\* C5 (amended): the workload-ready event leaves the unit Blocked; the next
\* reconciling event on the reachable container deploys and sets Active.
C5_ResolvedByNextReconciliation == [][C5_Amended_Step]_vars

\* The workload-ready event was delivered to a reachable container with
\* everything cached, and the unit is still Blocked.
C5_Witness ==
    /\ BlockedForContainer
    /\ can_connect
    /\ last_event = "studio_pebble_ready"
    /\ files[STUDIO_HTTP_CONFIG_FILE_CONTAINER_LOCAL_PATH] = NoFile

(***************************************************************************)
(* C6.  Every workload-ready event registers the 'studio' layer with       *)
(* startup disabled, combined with the layer of that name if there is one, *)
(* sets Blocked with the 'requires relating to' reason, and neither        *)
(* restarts the service nor writes a file.                                 *)
(***************************************************************************)
C6_Step ==
    last_event' = "studio_pebble_ready" =>
        /\ Cardinality({i \in 1..Len(layers') : layers'[i].label = "studio"}) = 1
        /\ \A i \in 1..Len(layers') :
                layers'[i].label = "studio" =>
                    /\ layers'[i].service = "studio"
                    /\ layers'[i].startup = "disabled"
        /\ Len(layers') = IF layers = <<>> THEN 1 ELSE Len(layers)
        /\ Count(last_ops', OpAddLayer) = 1
        /\ status'.kind = "blocked"
        /\ Names(status'.msg) = {"db", "gitlab"}
        /\ ~Restarted(last_ops')
        /\ ~Wrote(last_ops')
        /\ files' = files

\* C6: every workload-ready event registers the layer (startup disabled,
\* combined), sets Blocked, and deploys nothing.
C6_PebbleReadyNeverStarts == [][C6_Step]_vars

\* A workload-ready event on a unit that had everything cached, had been
\* deployed and had its layer registered before.
C6_Witness ==
    /\ last_event = "studio_pebble_ready"
    /\ Ready
    /\ files[STUDIO_HTTP_CONFIG_FILE_CONTAINER_LOCAL_PATH] # NoFile
    /\ status = BlockedStatus(MsgNeedsRelations)
    /\ Len(layers) = 1

(***************************************************************************)
(* C7.  As claimed: for every relation kind, a relation-changed event      *)
(* whose peer payload is absent sets Waiting, changes no slot, runs no     *)
(* reconciliation, and defers the event.                                   *)
(***************************************************************************)
RelationOf(event) ==
    CASE event = "db_relation_changed" -> "db"
      [] event = "legend_gitlab_relation_changed" -> "gitlab"
      [] event = "sdlc_relation_changed" -> "sdlc"
      [] event = "engine_relation_changed" -> "engine"
      [] OTHER -> "none"

SlotsUnchanged ==
    UNCHANGED <<legend_db_credentials, legend_gitlab_credentials,
                sdlc_service_url, engine_service_url>>

C7_Step ==
    (RelationOf(last_event') # "none" /\ last_payload' = "absent") =>
        /\ status'.kind = "waiting"
        /\ SlotsUnchanged
        /\ ~ReconcilePass(last_ops')
        /\ files' = files
        /\ ~Restarted(last_ops')
        /\ Count(last_ops', OpDefer(RelationOf(last_event'))) = 1
        /\ RelationOf(last_event') \in deferred'

\* C7 (as claimed): every relation-changed event with an absent payload sets
\* Waiting, changes no slot, runs no reconciliation and is deferred.
C7_AbsentPayloadDefers == [][C7_Step]_vars

(***************************************************************************)
(* C8.  As claimed: a database relation-changed event whose payload cannot *)
(* be retrieved leaves the cached database credentials untouched, ends     *)
(* normally and sets Blocked.                                              *)
(***************************************************************************)
C8_Step ==
    (last_event' = "db_relation_changed" /\ last_payload' = "malformed") =>
        /\ legend_db_credentials' = legend_db_credentials
        /\ ~fault'
        /\ status'.kind = "blocked"

\* C8 (as claimed): a malformed database payload leaves the slot untouched and
\* ends the handler normally with Blocked.
C8_MalformedDbPayloadBlocks == [][C8_Step]_vars

(***************************************************************************)
(* C9.  A gitlab relation-changed event whose credential retrieval fails   *)
(* sets Blocked, changes no slot, is not deferred and runs no              *)
(* reconciliation: no file is written and nothing restarted.               *)
(***************************************************************************)
C9_Step ==
    (last_event' = "legend_gitlab_relation_changed" /\ last_payload' = "malformed") =>
        /\ status' = BlockedStatus(MsgGitlabFailed)
        /\ ~fault'
        /\ SlotsUnchanged
        /\ Count(last_ops', OpDefer("gitlab")) = 0
        /\ deferred' \subseteq deferred
        /\ ~ReconcilePass(last_ops')
        /\ ~Wrote(last_ops')
        /\ ~Restarted(last_ops')
        /\ files' = files

\* C9: a failed gitlab credential retrieval sets Blocked, changes no slot, is
\* not deferred and runs no reconciliation.
C9_GitlabRetrievalFailureBlocks == [][C9_Step]_vars

\* The retrieval failed on a unit that had gitlab credentials cached and had
\* been deployed.
C9_Witness ==
    /\ last_event = "legend_gitlab_relation_changed"
    /\ last_payload = "malformed"
    /\ status = BlockedStatus(MsgGitlabFailed)
    /\ TruthyDict(legend_gitlab_credentials)
    /\ files[STUDIO_HTTP_CONFIG_FILE_CONTAINER_LOCAL_PATH] # NoFile

(***************************************************************************)
(* C10.  From a fresh unit with valid logging options and a reachable      *)
(* container: after the database data the unit is Blocked with the gitlab  *)
(* reason, after the gitlab data Blocked with the SDLC reason, and after   *)
(* the SDLC URL and the Engine URL it is Active, both files hold the       *)
(* documents of the cached fields, and exactly one restart was issued.     *)
(***************************************************************************)
C10_Scenario ==
    /\ scenario.step = 1 =>
            /\ status = BlockedStatus(MsgNeedsGitlab)
            /\ scenario.restarts = 0
    /\ scenario.step = 2 =>
            /\ status = BlockedStatus(MsgNeedsSdlc)
            /\ scenario.restarts = 0
    /\ scenario.step = 3 =>
            /\ status.kind = "blocked"
            /\ scenario.restarts = 0
    /\ scenario.step \in 1..3 =>
            \A p \in ConfigPaths : files[p] = NoFile
    /\ scenario.step = 4 =>
            /\ status = ActiveStatus
            /\ files[STUDIO_HTTP_CONFIG_FILE_CONTAINER_LOCAL_PATH] = ExpectedHttpFile
            /\ files[STUDIO_UI_CONFIG_FILE_CONTAINER_LOCAL_PATH] = ExpectedUiFile
            /\ files[STUDIO_HTTP_CONFIG_FILE_CONTAINER_LOCAL_PATH] # NoFile
            /\ files[STUDIO_UI_CONFIG_FILE_CONTAINER_LOCAL_PATH] # NoFile
            /\ scenario.restarts = 1

C10_Witness ==
    /\ scenario.step = 4
    /\ status = ActiveStatus


(***************************************************************************)
(* C11.  As stated: every reconciliation pass attempts the assembly of     *)
(* both documents, the UI document also when the base-service assembly is  *)
(* blocked, and deploys only when both succeeded.                          *)
(***************************************************************************)
BaseBlocked ==
    add_base_service_config_from_charm_config(
        legend_db_credentials, legend_gitlab_credentials, config).blocked # NoStatus
UiBlocked ==
    add_ui_config_from_relation_data(sdlc_service_url, engine_service_url).blocked
        # NoStatus

C11_Original_BothAlwaysAttempted ==
    ReconcilePass(last_ops) =>
        /\ Count(last_ops, Op("assemble", "base")) = 1
        /\ Count(last_ops, Op("assemble", "ui")) = 1
        /\ Wrote(last_ops) => (~BaseBlocked /\ ~UiBlocked)

\* C11, amended: a reconciliation pass assembles the base-service document
\* once; it attempts the UI document exactly when the base-service assembly
\* was not blocked; it deploys only when neither assembly was blocked.
C11_UiAttemptedOnlyAfterBase ==
    ReconcilePass(last_ops) =>
        /\ Count(last_ops, Op("assemble", "base")) = 1
        /\ Count(last_ops, Op("assemble", "ui")) = (IF BaseBlocked THEN 0 ELSE 1)
        /\ BaseBlocked => Position(last_ops, Op("assemble", "base")) = Len(last_ops) - 1
        /\ Wrote(last_ops) => (~BaseBlocked /\ ~UiBlocked)

\* A pass whose base-service assembly was blocked while the UI document could
\* have been assembled.
C11_Witness ==
    /\ ReconcilePass(last_ops)
    /\ BaseBlocked
    /\ ~UiBlocked
    /\ Count(last_ops, Op("assemble", "ui")) = 0

(***************************************************************************)
(* C12.  Every config-changed event runs one full reconciliation, also     *)
(* when it brings nothing new: with every precondition met and the         *)
(* container reachable it writes both files once, restarts the service     *)
(* once and leaves the unit active.  No event of any kind restarts the     *)
(* service or writes one of the files more than once.                      *)
(***************************************************************************)
C12_ConfigChangedAlwaysReconciles ==
    /\ last_event = "config_changed" =>
        /\ Count(last_ops, Op("assemble", "base")) = 1
        /\ (Ready /\ can_connect) =>
            /\ Count(last_ops, OpPush(STUDIO_HTTP_CONFIG_FILE_CONTAINER_LOCAL_PATH)) = 1
            /\ Count(last_ops, OpPush(STUDIO_UI_CONFIG_FILE_CONTAINER_LOCAL_PATH)) = 1
            /\ Count(last_ops, OpRestart) = 1
            /\ files[STUDIO_HTTP_CONFIG_FILE_CONTAINER_LOCAL_PATH] = ExpectedHttpFile
            /\ files[STUDIO_UI_CONFIG_FILE_CONTAINER_LOCAL_PATH] = ExpectedUiFile
            /\ status = ActiveStatus
    /\ Count(last_ops, OpRestart) <= 1
    /\ \A p \in ConfigPaths : Count(last_ops, OpPush(p)) <= 1

\* An active unit was given the config it already had, and deployed again.
C12_Witness ==
    /\ last_event = "config_changed"
    /\ last_payload = "redelivered"
    /\ Wrote(last_ops)
    /\ Count(last_ops, OpRestart) = 1
    /\ status = ActiveStatus

(***************************************************************************)
(* C13.  Reconciliation is idempotent in what it leaves behind: a pass     *)
(* that deploys over files already holding the documents of the same       *)
(* config and the same slots leaves both files as they were (it replaces   *)
(* their content, it does not add to it), and a relation-changed event     *)
(* whose payload equals the cached value leaves that cached value equal.   *)
(***************************************************************************)
Deployed ==
    /\ Ready
    /\ files[STUDIO_HTTP_CONFIG_FILE_CONTAINER_LOCAL_PATH] = ExpectedHttpFile
    /\ files[STUDIO_UI_CONFIG_FILE_CONTAINER_LOCAL_PATH] = ExpectedUiFile

C13_Step ==
    /\ (Deployed /\ config' = config /\ SlotsUnchanged /\ Wrote(last_ops')) =>
           files' = files
    /\ (/\ last_event' = "db_relation_changed"
        /\ last_payload' = "data"
        /\ last_data' = legend_db_credentials) =>
           legend_db_credentials' = legend_db_credentials
    /\ (/\ last_event' = "legend_gitlab_relation_changed"
        /\ last_payload' = "data"
        /\ last_data' = legend_gitlab_credentials) =>
           legend_gitlab_credentials' = legend_gitlab_credentials
    /\ (/\ last_event' = "sdlc_relation_changed"
        /\ last_payload' = "data"
        /\ last_data' = sdlc_service_url) =>
           sdlc_service_url' = sdlc_service_url
    /\ (/\ last_event' = "engine_relation_changed"
        /\ last_payload' = "data"
        /\ last_data' = engine_service_url) =>
           engine_service_url' = engine_service_url

C13_ReconciliationIdempotent == [][C13_Step]_vars

\* The second deployment of the same documents: an active unit got the config
\* it already had, wrote both files again, and the files hold one copy each.
C13_Witness ==
    /\ last_event = "config_changed"
    /\ last_payload = "redelivered"
    /\ Count(last_ops, OpPush(STUDIO_HTTP_CONFIG_FILE_CONTAINER_LOCAL_PATH)) = 1
    /\ Count(last_ops, OpPush(STUDIO_UI_CONFIG_FILE_CONTAINER_LOCAL_PATH)) = 1
    /\ Deployed

(***************************************************************************)
(* C14.  Constructing the charm again (a new operator process runs         *)
(* _set_stored_defaults) leaves the four slots, the status, the config and *)
(* the files as they were, so that a reconciliation run after it sets the  *)
(* status and leaves the files that one run before it would have.          *)
(***************************************************************************)
Outcome(mongo_creds, gitlab_creds, sdlc_url, engine_url) ==
    LET r == reconfigure_studio_service(
                 mongo_creds, gitlab_creds, sdlc_url, engine_url, config,
                 can_connect, files)
    IN [status |-> r.status, files |-> r.files]

C14_Step ==
    last_event' = "set_stored_defaults" =>
        /\ SlotsUnchanged
        /\ UNCHANGED <<status, files, config>>
        /\ Outcome(legend_db_credentials', legend_gitlab_credentials',
                   sdlc_service_url', engine_service_url')
           = Outcome(legend_db_credentials, legend_gitlab_credentials,
                     sdlc_service_url, engine_service_url)

C14_SlotsSurviveConstruction == [][C14_Step]_vars

\* The charm was constructed again on a unit that holds all four values.
C14_Witness ==
    /\ last_event = "set_stored_defaults"
    /\ AllPresent
    /\ status = ActiveStatus

(***************************************************************************)
(* C15.  As stated: in the base document a pass assembles, mongoUri is the *)
(* cached URI without its last '/'-separated segment (the slashes of the   *)
(* scheme kept) and mongoDb is the database name of the credentials.       *)
(***************************************************************************)
Pac4j ==
    Lookup(add_base_service_config_from_charm_config(
               legend_db_credentials, legend_gitlab_credentials, config).doc,
           "pac4j")

\* uri.split('/') without its last element, joined by '/' again.
WithoutLastSegment(uri) == Join(SubSeq(uri, 1, Len(uri) - 1), "/")

C16_Step ==
    last_event' = "legend_gitlab_relation_joined" =>
        /\ Len(gitlab_app_data') = 1
        /\ \E ip \in UnitAddresses :
               gitlab_app_data'[1] = "http://" \o ip \o ":8080/studio" \o "/log.in/callback"
        /\ SlotsUnchanged
        /\ UNCHANGED <<status, files, config, layers>>
        /\ ~Wrote(last_ops')
        /\ ~Restarted(last_ops')
        /\ ~ReconcilePass(last_ops')

C16_GitlabJoinedPublishesRedirectUri == [][C16_Step]_vars

\* The relation was joined by a unit that was already active: the URI is
\* published and the unit is active still.
C16_Witness ==
    /\ last_event = "legend_gitlab_relation_joined"
    /\ Len(gitlab_app_data) = 1
    /\ status = ActiveStatus
    /\ Deployed

(***************************************************************************)
(* C17.  A unit whose status is Active holds a non-empty value in each of  *)
(* the four slots.                                                         *)
(***************************************************************************)
C17_ActiveImpliesAllSlots ==
    status = ActiveStatus =>
        /\ TruthyDict(legend_db_credentials)
        /\ TruthyDict(legend_gitlab_credentials)
        /\ TruthyStr(sdlc_service_url)
        /\ TruthyStr(engine_service_url)

\* The event that brought the last missing value made the unit active.
C17_Witness ==
    /\ status = ActiveStatus
    /\ last_event = "engine_relation_changed"
    /\ last_payload = "data"
    /\ AllPresent

(***************************************************************************)
(* C18.  While the status is Active, /http-config.json and /ui-config.json *)
(* hold the documents that the current slots and the current config give:  *)
(* no event changes a slot or the config and leaves the unit active over   *)
(* files it did not write again.                                           *)
(***************************************************************************)
C18_ActiveImpliesFilesCurrent ==
    status = ActiveStatus =>
        /\ LoggingValid(config)
        /\ files[STUDIO_HTTP_CONFIG_FILE_CONTAINER_LOCAL_PATH] = ExpectedHttpFile
        /\ files[STUDIO_UI_CONFIG_FILE_CONTAINER_LOCAL_PATH] = ExpectedUiFile

\* Database credentials arrived on a run that left the order db, gitlab,
\* sdlc, engine; the event deployed and the unit is active over its files.
C18_Witness ==
    /\ status = ActiveStatus
    /\ last_event = "db_relation_changed"
    /\ last_payload = "data"
    /\ scenario = OutOfScenario
    /\ Wrote(last_ops)
    /\ files[STUDIO_HTTP_CONFIG_FILE_CONTAINER_LOCAL_PATH] = ExpectedHttpFile

(***************************************************************************)
(* C19.  A slot that holds a non-empty value is never emptied, and a slot  *)
(* changes only in the relation-changed handler of its own relation:       *)
(* config-changed, pebble-ready, relation-joined and the construction of   *)
(* the charm change no slot.                                               *)
(***************************************************************************)
C19_Step ==
    /\ TruthyDict(legend_db_credentials) => TruthyDict(legend_db_credentials')
    /\ TruthyDict(legend_gitlab_credentials) => TruthyDict(legend_gitlab_credentials')
    /\ TruthyStr(sdlc_service_url) => TruthyStr(sdlc_service_url')
    /\ TruthyStr(engine_service_url) => TruthyStr(engine_service_url')
    /\ legend_db_credentials' # legend_db_credentials =>
           last_event' = "db_relation_changed"
    /\ legend_gitlab_credentials' # legend_gitlab_credentials =>
           last_event' = "legend_gitlab_relation_changed"
    /\ sdlc_service_url' # sdlc_service_url =>
           last_event' = "sdlc_relation_changed"
    /\ engine_service_url' # engine_service_url =>
           last_event' = "engine_relation_changed"

C19_SlotsMonotoneAndOwned == [][C19_Step]_vars

\* The SDLC relation delivered an empty payload to a unit that holds an SDLC
\* URL: the URL is still there.
C19_Witness ==
    /\ last_event = "sdlc_relation_changed"
    /\ last_payload = "absent"
    /\ TruthyStr(sdlc_service_url)
    /\ AllPresent

====
